---- MODULE Spec2Model ----
(***************************************************************************)
(* Model of the Google Drive quota flow of CHIME:                          *)
(*   core/google_api.py  get_storage_quota, _refresh_access_token          *)
(*   core/views.py       _build_drive_quota_for_account, dashboard         *)
(* (the second definitions of views.py, lines 189-316, are the ones Python *)
(* binds).  The OAuth provider, the google client library and the ORM are  *)
(* the environment: their answers are nondeterministic choices.            *)
(***************************************************************************)
EXTENDS Integers, Sequences, FiniteSets, TLC

VARIABLES
    store,        \* SocialToken rows: account -> NoRow or [token, token_secret]
    validAT,      \* access tokens the provider accepts
    validRT,      \* refresh tokens the provider accepts
    nextTok,      \* next token value the provider issues
    siteApps,     \* number of google SocialApp rows attached to SITE_ID
    allApps,      \* number of google SocialApp rows (any site)
    libInstalled, \* whether the google client libraries import
    linked,       \* the user's linked SocialAccounts, in query order
    kind,         \* per request: "none", "api" (get_storage_quota), "dashboard"
    pc,           \* per request: position in the handler
    acct,         \* per request: account being fetched
    idx,          \* per request: position of dashboard's loop over accounts
    tok,          \* per request: the SocialToken object read (token_obj / tok)
    creds,        \* per request: views' Credentials object
    payload,      \* per request: the token endpoint's answer being processed
    resp,         \* per request: the last quota response
    result,       \* per request: what the fetch returned or raised
    items,        \* per request: dashboard's items list
    total,        \* per request: dashboard's aggregate
    log,          \* per request: HTTP calls and saves of the current fetch
    lastSave      \* the request and the token object of the latest save()

vars == << store, validAT, validRT, nextTok, siteApps, allApps, libInstalled,
           linked, kind, pc, acct, idx, tok, creds, payload, resp, result,
           items, total, log, lastSave >>

\* ------------------------------------------------------------------ bounds
\* length of the digit strings the provider reports
MaxDigits == 2
\* tokens the provider may issue during one behaviour
MaxIssued == 2
\* linked accounts of the user
MaxAccounts == 3
\* the scale of the byte counts of the dashboard scenarios
ByteUnit == 1024

\* ------------------------------------------------------------ Python values
None == [t |-> "none", n |-> 0, s |-> << >>]
Absent == [t |-> "absent", n |-> 0, s |-> << >>]
IntV(n) == [t |-> "int", n |-> n, s |-> << >>]
StrV(s) == [t |-> "str", n |-> 0, s |-> s]

\* characters of a reported string: the digits 0..9, and NonDigit for any other
NonDigit == 10
Chars == {0, 1, 5, NonDigit}

RECURSIVE DigitsValue(_)
DigitsValue(s) ==
    IF s = << >> THEN 0
    ELSE 10 * DigitsValue(SubSeq(s, 1, Len(s) - 1)) + s[Len(s)]

\* int(x) raises for None, for "" and for a string holding a non-digit
IntRaises(v) ==
    \/ v.t = "none"
    \/ v.t = "absent"
    \/ v.t = "str" /\ (v.s = << >> \/ \E i \in 1..Len(v.s) : v.s[i] = NonDigit)

\* int(x) where it does not raise
PyInt(v) == IF v.t = "int" THEN v.n ELSE DigitsValue(v.s)

\* bool(x): None, 0 and "" are falsy
Truthy(v) ==
    \/ v.t = "int" /\ v.n # 0
    \/ v.t = "str" /\ v.s # << >>

\* dict.get(key, 0): the default replaces an absent key only
GetOrZero(v) == IF v.t = "absent" THEN IntV(0) ELSE v
\* dict.get(key): an absent key reads as None
Get(v) == IF v.t = "absent" THEN None ELSE v

Abs(x) == IF x < 0 THEN -x ELSE x

\* round(num / den) of Python 3 for num >= 0, den > 0: to nearest, ties to even
RoundHalfEven(num, den) ==
    LET q == num \div den
        r == num % den
    IN IF 2 * r < den THEN q
       ELSE IF 2 * r > den THEN q + 1
       ELSE IF q % 2 = 0 THEN q ELSE q + 1

\* ------------------------------------------------- core/views.py, formatting
Unlimited == [t |-> "unlimited", n |-> 0, s |-> << >>]
Human(unit, num) == [t |-> "human", n |-> num, s |-> << unit >>]

\* index of the unit _humanize_bytes ends with: divides by 1024 while n >= 1024
RECURSIVE HumanUnit(_, _, _)
HumanUnit(n, d, i) ==
    IF n \div d >= 1024 /\ i < 5 THEN HumanUnit(n, d * 1024, i + 1) ELSE i

\* _humanize_bytes(n): "unlimited" for None, "<int> B" below 1024 (and for a
\* negative n), else one decimal of the largest unit
HumanizeBytes(v) ==
    IF v.t = "none" THEN Unlimited
    ELSE IF v.n < 1024 THEN Human(0, v.n)
    ELSE LET i == HumanUnit(v.n, 1, 0)
         IN Human(i, RoundHalfEven(10 * v.n, 1024 ^ i))

\* messages of the exceptions int() raises
IntError(v) == IF v.t = "none" THEN "TypeError: int() argument" ELSE "ValueError: invalid literal for int()"

\* the value _build_drive_quota_for_account returns
Returned(quota, error) == [raised |-> FALSE, quota |-> quota, error |-> error]
\* an exception leaving the function
Raised(msg) == [raised |-> TRUE, quota |-> None, error |-> msg]
NoResult == [raised |-> FALSE, quota |-> None, error |-> "(pending)"]
NoError == "(None)"

\* views.py 244-264: sq -> (quota, None), or (None, str(e)) when int() raises
ViewsLimit(sq) ==
    IF PyInt(GetOrZero(sq.limit)) = 0 THEN None ELSE IntV(PyInt(GetOrZero(sq.limit)))

ViewsRemaining(sq) ==
    IF ViewsLimit(sq).t = "none" THEN None
    ELSE IntV(ViewsLimit(sq).n - PyInt(GetOrZero(sq.usage)))

ViewsQuota(sq) ==
    IF IntRaises(GetOrZero(sq.usage)) THEN Returned(None, IntError(sq.usage))
    ELSE IF IntRaises(GetOrZero(sq.limit)) THEN Returned(None, IntError(sq.limit))
    ELSE LET usage_b == IntV(PyInt(GetOrZero(sq.usage)))
             limit_b == ViewsLimit(sq)
             remaining_b == ViewsRemaining(sq)
         IN Returned(
              [ usage |-> HumanizeBytes(usage_b),
                limit |-> IF limit_b.t # "none" THEN HumanizeBytes(limit_b) ELSE Unlimited,
                remaining |-> IF remaining_b.t # "none" THEN HumanizeBytes(remaining_b) ELSE None,
                quota_raw |-> [usage |-> usage_b, limit |-> limit_b, remaining |-> remaining_b] ],
              NoError)

\* --------------------------------------------- core/google_api.py, formatting
GB == 1024 ^ 3
\* f"{v / 1024**3:.1f} GB": tenths of a GB and the sign
GBString(v) == [t |-> "gb", n |-> RoundHalfEven(10 * Abs(v), GB), s |-> IF v < 0 THEN << 1 >> ELSE << >>]
UnlimitedText == [t |-> "Unlimited", n |-> 0, s |-> << >>]
NotAvailable == [t |-> "N/A", n |-> 0, s |-> << >>]

\* _fmt(b): None when int(b) raises
Fmt(v) == IF IntRaises(v) THEN None ELSE GBString(PyInt(v))

\* "limit and limit != '0'"
ApiLimitGiven(limit) == Truthy(limit) /\ limit # StrV(<< 0 >>)

ApiLimitGB(quota) == IF ApiLimitGiven(Get(quota.limit)) THEN Fmt(Get(quota.limit)) ELSE None
ApiUsageGB(quota) == IF Truthy(Get(quota.usage)) THEN Fmt(Get(quota.usage)) ELSE None

ApiRemainingGB(quota) ==
    IF ApiLimitGiven(Get(quota.limit)) /\ Truthy(Get(quota.usage))
       /\ ~IntRaises(Get(quota.limit)) /\ ~IntRaises(Get(quota.usage))
    THEN GBString(PyInt(Get(quota.limit)) - PyInt(Get(quota.usage)))
    ELSE None

\* google_api.py 99-116: the dict get_storage_quota returns
ApiQuota(quota) ==
    [ limit |-> IF ApiLimitGB(quota).t # "none" THEN ApiLimitGB(quota) ELSE UnlimitedText,
      usage |-> IF ApiUsageGB(quota).t # "none" THEN ApiUsageGB(quota)
                ELSE IF Truthy(Get(quota.usage)) THEN Get(quota.usage) ELSE NotAvailable,
      remaining |-> IF ApiRemainingGB(quota).t # "none" THEN ApiRemainingGB(quota)
                    ELSE IF ApiLimitGB(quota).t = "none" THEN NotAvailable ELSE None ]


\* ------------------------------------------------------------ the environment
\* the requests in flight; the specifications below run one of them
Reqs == {"r1", "r2"}
AccountIds == 1..MaxAccounts

\* a SocialToken row; token 0 stands for the empty string
NoRow == [exists |-> FALSE, token |-> 0, token_secret |-> 0]
Row(t, s) == [exists |-> TRUE, token |-> t, token_secret |-> s]
NoCreds == [token |-> 0, refresh_token |-> 0]
NoPayload == [access_token |-> 0, refresh_token |-> 0]

\* the tokens an account is linked with, and the ones the provider issues later
FirstAT(a) == a
FirstRT(a) == 10 + a
IssuedAT(k) == 100 + k
IssuedRT(k) == 200 + k

\* a quota response: status 0 stands for an exception of the HTTP call
Body(u, l) == [json |-> TRUE, usage |-> u, limit |-> l]
BadJson == [json |-> FALSE, usage |-> Absent, limit |-> Absent]
NoBody == Body(Absent, Absent)
Resp(status, body) == [status |-> status, body |-> body]
NoResp == Resp(0, NoBody)

\* what the quota endpoint may answer to a GET with this access token: 200 only
\* for a token it accepts, 401 for one it rejects (one that has expired by now
\* included), 500 or a network failure at any time
QuotaResponses(token, Bodies) ==
    {Resp(200, b) : b \in IF token \in validAT THEN Bodies ELSE {}}
    \cup {Resp(401, NoBody), Resp(500, NoBody), Resp(0, NoBody)}

\* what the token endpoint may answer to a refresh: "ok" (with or without a new
\* refresh token) only for a refresh token it accepts.  A provider that issues
\* a new refresh token may revoke the one presented (RFC 6749, section 6) or
\* keep accepting it.
TokenAnswers(rt) ==
    (IF rt \in validRT /\ nextTok <= MaxIssued
     THEN {[status |-> 200, access_token |-> IssuedAT(nextTok), refresh_token |-> 0,
            revoked |-> {}]}
          \cup {[status |-> 200, access_token |-> IssuedAT(nextTok),
                 refresh_token |-> IssuedRT(nextTok), revoked |-> v] : v \in {{}, {rt}}}
     ELSE {})
    \cup {[status |-> 200, access_token |-> 0, refresh_token |-> 0, revoked |-> {}],
          [status |-> 400, access_token |-> 0, refresh_token |-> 0, revoked |-> {}],
          [status |-> 0, access_token |-> 0, refresh_token |-> 0, revoked |-> {}]}

AnswerOk(ans) == ans.status = 200 /\ ans.access_token # 0

\* the provider's state after answering
IssueTokens(ans) ==
    /\ validAT' = IF AnswerOk(ans) THEN validAT \cup {ans.access_token} ELSE validAT
    /\ validRT' = IF AnswerOk(ans) /\ ans.refresh_token # 0
                  THEN (validRT \ ans.revoked) \cup {ans.refresh_token} ELSE validRT
    /\ nextTok' = IF AnswerOk(ans) THEN nextTok + 1 ELSE nextTok

\* a rejected token stays rejected
ExpireOn(token, r) ==
    validAT' = IF r.status = 401 THEN validAT \ {token} ELSE validAT

\* no save() yet, and the record of one: who saved which token object
NoSave == [req |-> "none", token |-> 0, token_secret |-> 0]
Saved(r, t, s) == [req |-> r, token |-> t, token_secret |-> s]

Event(op, token, status) == [op |-> op, tok |-> token, status |-> status]
Logged(r, e) == log' = [log EXCEPT ![r] = Append(@, e)]

Count(seq, op) == Cardinality({i \in 1..Len(seq) : seq[i].op = op})

\* ------------------------------------------- core/google_api.py, the fetch
\* line 19 / 30 / 40 / 47 / 74 / 85: the messages of GoogleAPIError
ErrNoToken == "No token found for this Google account."
ErrNoSiteApp == "Google SocialApp not configured in admin."
ErrNoRefreshToken == "No refresh token available for this Google account."
ErrRefreshFailed == "Failed to refresh token"
ErrNoAccessToken == "Refresh response missing access_token"
ErrDriveApi == "Drive API error"
ErrNetwork == "requests.RequestException"
ErrJson == "JSONDecodeError"

Finish(r, res) ==
    /\ result' = [result EXCEPT ![r] = res]
    /\ pc' = [pc EXCEPT ![r] = "done"]

\* get_storage_quota(sa), lines 65-74: read the account's token row
ApiRead(r, sa) ==
    /\ pc[r] = "idle"
    /\ kind' = [kind EXCEPT ![r] = "api"]
    /\ acct' = [acct EXCEPT ![r] = sa]
    /\ log' = [log EXCEPT ![r] = << >>]
    /\ IF store[sa].exists
       THEN /\ tok' = [tok EXCEPT ![r] = [token |-> store[sa].token,
                                          token_secret |-> store[sa].token_secret]]
            /\ pc' = [pc EXCEPT ![r] = "a_get1"]
            /\ UNCHANGED result
       ELSE /\ Finish(r, Raised(ErrNoToken))
            /\ UNCHANGED tok
    /\ UNCHANGED << lastSave, store, validAT, validRT, nextTok, siteApps, allApps, libInstalled,
                    linked, idx, creds, payload, resp, items, total >>

\* where the first response leads, line 80: a 401 alone leads to the refresh
AfterFirstGet(status) == IF status = 401 THEN "a_refresh" ELSE "a_parse"
\* a retry that refreshes again on another 401
AfterRetryAgain(status) == IF status = 401 THEN "a_refresh" ELSE "a_parse"
\* where the retried response leads, lines 82-84: to the status check, whatever it is
AfterRetry(status) == "a_parse"

\* lines 61-63, 77-80: the first authorized GET
ApiGet1(r, Bodies) ==
    /\ pc[r] = "a_get1"
    /\ \E rs \in QuotaResponses(tok[r].token, Bodies) :
         /\ Logged(r, Event("GET", tok[r].token, rs.status))
         /\ ExpireOn(tok[r].token, rs)
         /\ resp' = [resp EXCEPT ![r] = rs]
         /\ IF rs.status = 0
            THEN Finish(r, Raised(ErrNetwork))
            ELSE /\ pc' = [pc EXCEPT ![r] = AfterFirstGet(rs.status)]
                 /\ UNCHANGED result
    /\ UNCHANGED << lastSave, store, validRT, nextTok, siteApps, allApps, libInstalled,
                    linked, kind, acct, idx, tok, creds, payload, items, total >>

\* the checks without the one for a missing refresh token
RefreshPrecheckNoToken(apps, refresh_token) ==
    IF apps = 0 THEN ErrNoSiteApp ELSE NoError
\* _refresh_access_token lines 27-30: the checks made before the POST, in order
RefreshPrecheck(apps, refresh_token) ==
    IF apps = 0 THEN ErrNoSiteApp
    ELSE IF refresh_token = 0 THEN ErrNoRefreshToken
    ELSE NoError

\* _refresh_access_token lines 27-47: the checks, the POST and its answer
ApiRefreshPost(r) ==
    /\ pc[r] = "a_refresh"
    /\ IF RefreshPrecheck(siteApps, tok[r].token_secret) # NoError
       THEN /\ Finish(r, Raised(RefreshPrecheck(siteApps, tok[r].token_secret)))
            /\ UNCHANGED << validAT, validRT, nextTok, payload, log >>
       ELSE \E ans \in TokenAnswers(tok[r].token_secret) :
              /\ Logged(r, Event("POST", tok[r].token_secret, ans.status))
              /\ IssueTokens(ans)
              /\ IF AnswerOk(ans)
                 THEN /\ payload' = [payload EXCEPT ![r] =
                            [access_token |-> ans.access_token,
                             refresh_token |-> ans.refresh_token]]
                      /\ pc' = [pc EXCEPT ![r] = "a_save"]
                      /\ UNCHANGED result
                 ELSE /\ Finish(r, Raised(IF ans.status = 0 THEN ErrNetwork
                                          ELSE IF ans.status # 200 THEN ErrRefreshFailed
                                          ELSE ErrNoAccessToken))
                      /\ UNCHANGED payload
    /\ UNCHANGED << lastSave, store, siteApps, allApps, libInstalled, linked, kind, acct, idx,
                    tok, creds, resp, items, total >>

\* a refresh that stores the new refresh token and forgets the access token
RefreshedTokenStale(t, p) ==
    [token |-> t.token,
     token_secret |-> IF p.refresh_token # 0 THEN p.refresh_token ELSE t.token_secret]
\* lines 50-53: the token object after the refresh
RefreshedToken(t, p) ==
    [token |-> p.access_token,
     token_secret |-> IF p.refresh_token # 0 THEN p.refresh_token ELSE t.token_secret]

\* lines 50-59: update the token object and save() the whole row
ApiRefreshSave(r) ==
    /\ pc[r] = "a_save"
    /\ tok' = [tok EXCEPT ![r] = RefreshedToken(tok[r], payload[r])]
    /\ store' = [store EXCEPT ![acct[r]] = Row(tok'[r].token, tok'[r].token_secret)]
    /\ Logged(r, Event("SAVE", tok'[r].token, tok'[r].token_secret))
    /\ lastSave' = Saved(r, tok'[r].token, tok'[r].token_secret)
    /\ pc' = [pc EXCEPT ![r] = "a_get2"]
    /\ UNCHANGED << validAT, validRT, nextTok, siteApps, allApps, libInstalled, linked,
                    kind, acct, idx, creds, payload, resp, result, items, total >>

\* line 82: the one retry, with the token object's token
ApiGet2(r, Bodies) ==
    /\ pc[r] = "a_get2"
    /\ \E rs \in QuotaResponses(tok[r].token, Bodies) :
         /\ Logged(r, Event("GET", tok[r].token, rs.status))
         /\ ExpireOn(tok[r].token, rs)
         /\ resp' = [resp EXCEPT ![r] = rs]
         /\ IF rs.status = 0
            THEN Finish(r, Raised(ErrNetwork))
            ELSE /\ pc' = [pc EXCEPT ![r] = AfterRetry(rs.status)]
                 /\ UNCHANGED result
    /\ UNCHANGED << lastSave, store, validRT, nextTok, siteApps, allApps, libInstalled,
                    linked, kind, acct, idx, tok, creds, payload, items, total >>

\* lines 84-116: the status check, resp.json() and the formatting
ApiOutcome(rs) ==
    IF rs.status # 200 THEN Raised(ErrDriveApi)
    ELSE IF ~rs.body.json THEN Raised(ErrJson)
    ELSE Returned(ApiQuota(rs.body), NoError)

ApiParse(r) ==
    /\ pc[r] = "a_parse"
    /\ Finish(r, ApiOutcome(resp[r]))
    /\ UNCHANGED << lastSave, store, validAT, validRT, nextTok, siteApps, allApps, libInstalled,
                    linked, kind, acct, idx, tok, creds, payload, resp, items, total, log >>

\* ----------------------------------------------- core/views.py, the fetch
ErrNoLibrary == "Google API client not installed."
ErrNoStoredToken == "No OAuth token stored for this account."
ErrNoApp == "Google SocialApp not configured for this site."
ErrManyApps == "SocialApp.MultipleObjectsReturned"
\* str(e) of what build(...).execute() raises; it may be the empty string
LibErrors == {"HttpError", "TransportError", ""}
\* str(e) of what creds.refresh raises
RefreshErrors == {"RefreshError", "TransportError"}

Item(a, quota, error) == [account |-> a, quota |-> quota, error |-> error]

\* dashboard lines 280-282: append the fetch's pair and go on with the next account
ReturnItem(r, res) ==
    /\ result' = [result EXCEPT ![r] = res]
    /\ items' = [items EXCEPT ![r] = Append(@, Item(linked[idx[r]], res.quota, res.error))]
    /\ idx' = [idx EXCEPT ![r] = @ + 1]
    /\ pc' = [pc EXCEPT ![r] = IF idx[r] + 1 > Len(linked) THEN "d_agg" ELSE "v_start"]

\* dashboard lines 273-280: the user's accounts, an empty items list
DashboardBegin(r) ==
    /\ pc[r] = "idle"
    /\ kind' = [kind EXCEPT ![r] = "dashboard"]
    /\ items' = [items EXCEPT ![r] = << >>]
    /\ idx' = [idx EXCEPT ![r] = 1]
    /\ pc' = [pc EXCEPT ![r] = IF linked = << >> THEN "d_agg" ELSE "v_start"]
    /\ UNCHANGED << lastSave, store, validAT, validRT, nextTok, siteApps, allApps, libInstalled,
                    linked, acct, tok, creds, payload, resp, result, total, log >>

\* lines 197-220: what the function answers before building the credentials
ViewsPrecheck(installed, row, apps) ==
    IF ~installed THEN Returned(None, ErrNoLibrary)
    ELSE IF ~row.exists THEN Returned(None, ErrNoStoredToken)
    ELSE IF apps = 0 THEN Returned(None, ErrNoApp)
    ELSE IF apps > 1 THEN Raised(ErrManyApps)
    ELSE Returned(None, NoError)

\* _build_drive_quota_for_account lines 189-234: imports, token row, SocialApp,
\* Credentials
ViewsStart(r) ==
    /\ pc[r] = "v_start"
    /\ acct' = [acct EXCEPT ![r] = linked[idx[r]]]
    /\ log' = [log EXCEPT ![r] = << >>]
    /\ LET row == store[linked[idx[r]]]
           pre == ViewsPrecheck(libInstalled, row, allApps)
       IN IF pre.raised
          THEN /\ Finish(r, pre)
               /\ UNCHANGED << tok, creds, items, idx >>
          ELSE IF pre.error # NoError
          THEN /\ ReturnItem(r, pre)
               /\ UNCHANGED << tok, creds >>
          ELSE /\ tok' = [tok EXCEPT ![r] = [token |-> row.token,
                                             token_secret |-> row.token_secret]]
               /\ creds' = [creds EXCEPT ![r] = [token |-> row.token,
                                                 refresh_token |-> row.token_secret]]
               /\ pc' = [pc EXCEPT ![r] = "v_refresh"]
               /\ UNCHANGED << result, items, idx >>
    /\ UNCHANGED << lastSave, store, validAT, validRT, nextTok, siteApps, allApps, libInstalled,
                    linked, kind, payload, resp, total >>

\* lines 236-237: creds.refresh(Request()) when the library reports the
\* credentials expired and a refresh token is present.  creds.expired is the
\* library's answer: either value.
ViewsRefresh(r) ==
    /\ pc[r] = "v_refresh"
    /\ \E expired \in BOOLEAN :
         IF expired /\ creds[r].refresh_token # 0
         THEN \E ans \in TokenAnswers(creds[r].refresh_token) :
                /\ Logged(r, Event("POST", creds[r].refresh_token, ans.status))
                /\ IssueTokens(ans)
                /\ IF AnswerOk(ans)
                   THEN /\ creds' = [creds EXCEPT ![r] =
                              [token |-> ans.access_token,
                               refresh_token |-> IF ans.refresh_token # 0
                                                 THEN ans.refresh_token ELSE @.refresh_token]]
                        /\ payload' = [payload EXCEPT ![r] =
                              [access_token |-> ans.access_token,
                               refresh_token |-> ans.refresh_token]]
                        /\ pc' = [pc EXCEPT ![r] = "v_save"]
                        /\ UNCHANGED << result, items, idx >>
                   ELSE /\ \E msg \in RefreshErrors :
                              ReturnItem(r, Returned(None, msg))
                        /\ UNCHANGED << creds, payload >>
         ELSE /\ pc' = [pc EXCEPT ![r] = "v_exec"]
              /\ UNCHANGED << validAT, validRT, nextTok, creds, payload, result, items,
                              idx, log >>
    /\ UNCHANGED << lastSave, store, siteApps, allApps, libInstalled, linked, kind, acct, tok,
                    resp, total >>

\* lines 238-240: the columns tok.save(update_fields=["token"]) writes
ViewsSavedRow(row, t) == [row EXCEPT !.token = t.token]

\* lines 238-240: persist the refreshed access token if it changed
ViewsSave(r) ==
    /\ pc[r] = "v_save"
    /\ IF creds[r].token # 0 /\ creds[r].token # tok[r].token
       THEN /\ tok' = [tok EXCEPT ![r].token = creds[r].token]
            /\ store' = [store EXCEPT ![acct[r]] = ViewsSavedRow(@, tok'[r])]
            /\ Logged(r, Event("SAVE", tok'[r].token, store'[acct[r]].token_secret))
            /\ lastSave' = Saved(r, tok'[r].token, tok'[r].token_secret)
       ELSE UNCHANGED << tok, store, log, lastSave >>
    /\ pc' = [pc EXCEPT ![r] = "v_exec"]
    /\ UNCHANGED << validAT, validRT, nextTok, siteApps, allApps, libInstalled, linked,
                    kind, acct, idx, creds, payload, resp, result, items, total >>

\* lines 242-243: build(...) and about().get().execute().  The library answers
\* with the storageQuota only if the provider accepts the credentials' access
\* token, or their refresh token (the library refreshes behind the call and
\* keeps the new token to itself); otherwise, or on any failure, it raises.
ViewsExecute(r, Bodies) ==
    /\ pc[r] = "v_exec"
    /\ \/ /\ creds[r].token \in validAT \/ creds[r].refresh_token \in validRT
          /\ \E b \in Bodies :
               /\ resp' = [resp EXCEPT ![r] = Resp(200, b)]
               /\ Logged(r, Event("GET", creds[r].token, 200))
               /\ pc' = [pc EXCEPT ![r] = "v_parse"]
               /\ UNCHANGED << result, items, idx >>
       \/ \E msg \in LibErrors :
               /\ resp' = [resp EXCEPT ![r] = NoResp]
               /\ Logged(r, Event("GET", creds[r].token, 0))
               /\ ReturnItem(r, Returned(None, msg))
    /\ UNCHANGED << lastSave, store, validAT, validRT, nextTok, siteApps, allApps, libInstalled,
                    linked, kind, acct, tok, creds, payload, total >>

\* lines 244-264: parse the storageQuota and return
ViewsParse(r) ==
    /\ pc[r] = "v_parse"
    /\ ReturnItem(r, ViewsQuota(resp[r].body))
    /\ UNCHANGED << lastSave, store, validAT, validRT, nextTok, siteApps, allApps, libInstalled,
                    linked, kind, acct, tok, creds, payload, resp, total, log >>

\* ------------------------------------------- core/views.py, the aggregation
\* lines 291-294: the items the loop does not skip
Counted(it) == it.quota # None

\* a loop that stops at the first account it cannot read, instead of skipping it
RECURSIVE UsedSumUntilError(_)
UsedSumUntilError(its) ==
    IF its = << >> \/ ~Counted(Head(its)) THEN 0
    ELSE Head(its).quota.quota_raw.usage.n + UsedSumUntilError(Tail(its))

\* line 295: used_sum
RECURSIVE UsedSum(_)
UsedSum(its) ==
    IF its = << >> THEN 0
    ELSE UsedSum(Tail(its)) + (IF Counted(Head(its)) THEN Head(its).quota.quota_raw.usage.n ELSE 0)

\* an all_finite that is assigned by every account, so that the last one decides
AllFiniteLast(its) ==
    IF its = << >> THEN TRUE
    ELSE ~(Counted(its[Len(its)]) /\ its[Len(its)].quota.quota_raw.limit.t = "none")

\* lines 296-298: all_finite
RECURSIVE AllFinite(_)
AllFinite(its) ==
    IF its = << >> THEN TRUE
    ELSE AllFinite(Tail(its))
         /\ ~(Counted(Head(its)) /\ Head(its).quota.quota_raw.limit.t = "none")

\* lines 296-300: limit_sum
RECURSIVE LimitSum(_)
LimitSum(its) ==
    IF its = << >> THEN 0
    ELSE LimitSum(Tail(its))
         + (IF Counted(Head(its)) /\ Head(its).quota.quota_raw.limit.t # "none"
            THEN Head(its).quota.quota_raw.limit.n ELSE 0)

\* a total limit that is the sum as soon as one account is finite
TotalLimitAnyFinite(its) ==
    IF \E i \in 1..Len(its) : Counted(its[i]) /\ its[i].quota.quota_raw.limit.t # "none"
    THEN IntV(LimitSum(its)) ELSE None

\* line 302: total_limit_b
TotalLimit(its) == IF its # << >> /\ AllFinite(its) THEN IntV(LimitSum(its)) ELSE None

\* line 304: total_avail_b
TotalAvail(its) ==
    IF TotalLimit(its).t # "none" THEN IntV(TotalLimit(its).n - UsedSum(its)) ELSE None

\* a percentage that truncates instead of rounding
PctUsedFloor(used, limit) ==
    IF limit.t # "none" /\ limit.n # 0 THEN IntV((100 * used) \div limit.n) ELSE None

\* line 313: int(round((total_used_b / total_limit_b) * 100)) if total_limit_b
PctUsed(used, limit) ==
    IF limit.t # "none" /\ limit.n # 0 THEN IntV(RoundHalfEven(100 * used, limit.n)) ELSE None

\* lines 306-314: the total dict
Aggregate(its) ==
    [ used_bytes |-> UsedSum(its),
      limit_bytes |-> TotalLimit(its),
      avail_bytes |-> TotalAvail(its),
      used_h |-> HumanizeBytes(IntV(UsedSum(its))),
      limit_h |-> HumanizeBytes(TotalLimit(its)),
      avail_h |-> IF TotalAvail(its).t # "none" THEN HumanizeBytes(TotalAvail(its)) ELSE None,
      pct_used |-> PctUsed(UsedSum(its), TotalLimit(its)) ]

NoTotal == Aggregate(<< >>)

\* dashboard lines 284-316: aggregate and render
DashAggregate(r) ==
    /\ pc[r] = "d_agg"
    /\ total' = [total EXCEPT ![r] = Aggregate(items[r])]
    /\ pc' = [pc EXCEPT ![r] = "rendered"]
    /\ UNCHANGED << lastSave, store, validAT, validRT, nextTok, siteApps, allApps, libInstalled,
                    linked, kind, acct, idx, tok, creds, payload, resp, result, items, log >>

\* ------------------------------------------------------- the specifications
\* what the provider reports in the single-fetch specification
FetchValues == {Absent, StrV(<< 0 >>), StrV(<< 1, 5 >>)}
JsonBodies == {Body(u, l) : u \in {Absent, StrV(<< 5 >>)}, l \in FetchValues}
FetchBodies == JsonBodies \cup {BadJson}

\* every value of at most MaxDigits characters, as a string or as an integer
RECURSIVE Strings(_)
Strings(n) ==
    IF n = 0 THEN {<< >>}
    ELSE Strings(n - 1) \cup {Append(s, c) : s \in Strings(n - 1), c \in Chars}
ParseValues ==
    {Absent, None} \cup {StrV(s) : s \in Strings(MaxDigits)} \cup {IntV(n) : n \in {0, 5, 15}}
ParseBodies == {Body(u, l) : u \in ParseValues, l \in ParseValues}

\* what the provider reports in the dashboard specification
DashBodies ==
    {Body(u, l) : u \in {IntV(ByteUnit), IntV(4 * ByteUnit)},
                  l \in {IntV(15 * ByteUnit), StrV(<< 0 >>)}}

Prefix(n) == [i \in 1..n |-> i]

Idle ==
    /\ nextTok = 1
    /\ kind = [r \in Reqs |-> "none"]
    /\ pc = [r \in Reqs |-> "idle"]
    /\ acct = [r \in Reqs |-> 0]
    /\ idx = [r \in Reqs |-> 0]
    /\ tok = [r \in Reqs |-> [token |-> 0, token_secret |-> 0]]
    /\ creds = [r \in Reqs |-> NoCreds]
    /\ payload = [r \in Reqs |-> NoPayload]
    /\ resp = [r \in Reqs |-> NoResp]
    /\ result = [r \in Reqs |-> NoResult]
    /\ items = [r \in Reqs |-> << >>]
    /\ total = [r \in Reqs |-> NoTotal]
    /\ log = [r \in Reqs |-> << >>]
    /\ lastSave = NoSave

\* one fetch for account 1, whose row, tokens and configuration vary; the other
\* accounts hold tokens the provider accepts
Init ==
    /\ Idle
    /\ \E row \in {NoRow, Row(FirstAT(1), 0), Row(FirstAT(1), FirstRT(1))} :
         store = [a \in AccountIds |-> IF a = 1 THEN row ELSE Row(FirstAT(a), FirstRT(a))]
    /\ \E S \in SUBSET {FirstAT(1)} : validAT = S \cup {FirstAT(a) : a \in AccountIds \ {1}}
    /\ \E S \in SUBSET {FirstRT(1)} : validRT = S \cup {FirstRT(a) : a \in AccountIds \ {1}}
    /\ allApps \in 0..2
    /\ siteApps \in 0..allApps
    /\ libInstalled \in BOOLEAN
    /\ linked = << 1 >>

Next ==
    \/ ApiRead("r1", 1)
    \/ ApiGet1("r1", FetchBodies)
    \/ ApiRefreshPost("r1")
    \/ ApiRefreshSave("r1")
    \/ ApiGet2("r1", FetchBodies)
    \/ ApiParse("r1")
    \/ DashboardBegin("r1")
    \/ ViewsStart("r1")
    \/ ViewsRefresh("r1")
    \/ ViewsSave("r1")
    \/ ViewsExecute("r1", JsonBodies)
    \/ ViewsParse("r1")
    \/ DashAggregate("r1")

Spec == Init /\ [][Next]_vars

\* the dashboard of a user with up to MaxAccounts linked accounts, the second
\* of them with or without a stored token; the provider still accepts the
\* refresh token of the first account only
InitDash ==
    /\ Idle
    /\ \E S \in SUBSET {2} :
         store = [a \in AccountIds |-> IF a \in S THEN NoRow ELSE Row(FirstAT(a), FirstRT(a))]
    /\ validAT = {FirstAT(a) : a \in AccountIds}
    /\ validRT = {FirstRT(1)}
    /\ allApps \in 0..2
    /\ siteApps = allApps
    /\ libInstalled \in BOOLEAN
    /\ \E n \in 0..MaxAccounts : linked = Prefix(n)

NextDash ==
    \/ DashboardBegin("r1")
    \/ ViewsStart("r1")
    \/ ViewsRefresh("r1")
    \/ ViewsSave("r1")
    \/ ViewsExecute("r1", DashBodies)
    \/ ViewsParse("r1")
    \/ DashAggregate("r1")

SpecDash == InitDash /\ [][NextDash]_vars

\* the parsing of every reported usage/limit pair: the state after a 200 answer
InitParse ==
    /\ nextTok = 1
    /\ store = [a \in AccountIds |-> Row(FirstAT(a), FirstRT(a))]
    /\ validAT = {FirstAT(a) : a \in AccountIds}
    /\ validRT = {FirstRT(a) : a \in AccountIds}
    /\ allApps = 1
    /\ siteApps = 1
    /\ libInstalled = TRUE
    /\ linked = << 1 >>
    /\ \E k \in {"api", "dashboard"} :
         /\ kind = [r \in Reqs |-> IF r = "r1" THEN k ELSE "none"]
         /\ pc = [r \in Reqs |-> IF r = "r1" THEN (IF k = "api" THEN "a_parse" ELSE "v_parse")
                                 ELSE "idle"]
         /\ \E b \in ParseBodies \cup (IF k = "api" THEN {BadJson} ELSE {}) :
              resp = [r \in Reqs |-> IF r = "r1" THEN Resp(200, b) ELSE NoResp]
    /\ acct = [r \in Reqs |-> IF r = "r1" THEN 1 ELSE 0]
    /\ idx = [r \in Reqs |-> IF r = "r1" THEN 1 ELSE 0]
    /\ tok = [r \in Reqs |-> IF r = "r1" THEN [token |-> FirstAT(1), token_secret |-> FirstRT(1)]
                             ELSE [token |-> 0, token_secret |-> 0]]
    /\ creds = [r \in Reqs |-> IF r = "r1" /\ kind[r] = "dashboard"
                               THEN [token |-> FirstAT(1), refresh_token |-> FirstRT(1)]
                               ELSE NoCreds]
    /\ payload = [r \in Reqs |-> NoPayload]
    /\ result = [r \in Reqs |-> NoResult]
    /\ items = [r \in Reqs |-> << >>]
    /\ total = [r \in Reqs |-> NoTotal]
    /\ log = [r \in Reqs |-> IF r = "r1" THEN << Event("GET", FirstAT(1), 200) >> ELSE << >>]
    /\ lastSave = NoSave

NextParse ==
    \/ ApiParse("r1")
    \/ ViewsParse("r1")
    \/ DashAggregate("r1")

SpecParse == InitParse /\ [][NextParse]_vars

\* ------------------------------------------------------------------ claims
Succeeded(r) == ~result[r].raised /\ result[r].error = NoError
\* the first GET of the fetch was answered 401
FirstGetRejected(r) ==
    Len(log[r]) >= 1 /\ log[r][1].op = "GET" /\ log[r][1].status = 401
\* ... and was followed by a refresh that the token endpoint granted
RefreshGranted(r) ==
    /\ FirstGetRejected(r)
    /\ Len(log[r]) >= 2 /\ log[r][2].op = "POST" /\ log[r][2].status = 200
    /\ payload[r].access_token # 0

\* C1: in every state of a fetch, the fetch has made at most two quota GETs and
\* at most one POST to the token endpoint, and a second GET is there only after
\* a first GET answered 401, a granted refresh and its save.
C1_AtMostOneRefreshOneRetry ==
    \A r \in Reqs :
        /\ Count(log[r], "GET") <= 2
        /\ Count(log[r], "POST") <= 1
        /\ Count(log[r], "GET") = 2 =>
              /\ RefreshGranted(r)
              /\ Len(log[r]) = 4
              /\ log[r][3].op = "SAVE"
              /\ log[r][4].op = "GET"

C1_Witness ==
    /\ pc["r1"] = "done"
    /\ Count(log["r1"], "GET") = 2
    /\ Count(log["r1"], "POST") = 1
    /\ log["r1"][4].status = 401

\* C2: no fetch made for the dashboard ever ends by raising: it returns a pair.
C2_FetchNeverRaises ==
    \A r \in Reqs : kind[r] = "dashboard" => ~result[r].raised

C4_ScenarioD_AsStated ==
    \A r \in Reqs :
        (kind[r] = "api" /\ pc[r] = "done" /\ FirstGetRejected(r) /\ tok[r].token_secret = 0) =>
            /\ result[r] = Raised(ErrNoRefreshToken)
            /\ Len(log[r]) = 1
            /\ store[acct[r]] = Row(tok[r].token, 0)

\* C4 amended: such a get_storage_quota call ends right after the rejected GET,
\* without a POST, without a retry and with the stored credential unchanged; its
\* error is the missing-refresh-token error when a google SocialApp is attached
\* to the site, and the app-not-configured error otherwise.
C4_ScenarioD ==
    \A r \in Reqs :
        (kind[r] = "api" /\ FirstGetRejected(r) /\ tok[r].token_secret = 0) =>
            /\ pc[r] \in {"a_refresh", "done"}
            /\ Len(log[r]) = 1
            /\ store[acct[r]] = Row(tok[r].token, 0)
            /\ pc[r] = "done" =>
                 result[r] = Raised(IF siteApps = 0 THEN ErrNoSiteApp ELSE ErrNoRefreshToken)

C4_Witness ==
    /\ kind["r1"] = "api" /\ pc["r1"] = "done"
    /\ FirstGetRejected("r1") /\ tok["r1"].token_secret = 0
    /\ result["r1"] = Raised(ErrNoRefreshToken)

\* C5: every step that changes a stored credential is the save of a request
\* whose refresh for that account was granted; it stores the issued access
\* token, and the issued refresh token if there is one, else keeps the stored
\* refresh token; no other row changes.
C5_StoreChangesOnlyByRefresh ==
    [][\A a \in AccountIds :
          store'[a] # store[a] =>
             \E r \in Reqs :
                /\ acct[r] = a
                /\ pc[r] \in {"a_save", "v_save"}
                /\ payload[r].access_token # 0
                /\ store'[a] = Row(payload[r].access_token,
                                   IF payload[r].refresh_token # 0
                                   THEN payload[r].refresh_token
                                   ELSE store[a].token_secret)]_vars

\* the reported limit is absent, the integer 0, or digits whose value is 0
LimitZeroOrAbsent(v) ==
    \/ v.t = "absent"
    \/ v.t = "int" /\ v.n = 0
    \/ v.t = "str" /\ ~IntRaises(v) /\ PyInt(v) = 0
\* the reported limit is an integer or digits with a positive value
LimitPositive(v) == v.t \in {"int", "str"} /\ ~IntRaises(v) /\ PyInt(v) > 0

\* C6: every fetch that returns a quota for a 200 answer returns an unlimited
\* limit and an undefined remaining when the reported limit is absent or zero,
\* and the reported value as the limit when it is positive.
C6_ZeroLimitIsUnlimited ==
    \A r \in Reqs :
        (pc[r] \in {"done", "d_agg"} /\ resp[r].status = 200 /\ Succeeded(r)) =>
            LET lim == resp[r].body.limit
                q == result[r].quota
            IN IF kind[r] = "api"
               THEN /\ LimitZeroOrAbsent(lim) =>
                          q.limit = UnlimitedText /\ q.remaining \in {NotAvailable, None}
                    /\ LimitPositive(lim) => q.limit = GBString(PyInt(lim))
               ELSE /\ LimitZeroOrAbsent(lim) =>
                          /\ q.quota_raw.limit = None /\ q.quota_raw.remaining = None
                          /\ q.limit = Unlimited /\ q.remaining = None
                    /\ LimitPositive(lim) => q.quota_raw.limit = IntV(PyInt(lim))

\* ----------------------------------------------- claims on the aggregation
Rendered(r) == kind[r] = "dashboard" /\ pc[r] = "rendered"
\* the positions of the accounts whose fetch returned a quota
Fetched(its) == {i \in 1..Len(its) : its[i].quota # None}
UnlimitedAt(its) == {i \in Fetched(its) : its[i].quota.quota_raw.limit = None}

RECURSIVE SumOver(_, _, _)
SumOver(its, S, f) ==
    IF S = {} THEN 0
    ELSE LET i == CHOOSE j \in S : TRUE
         IN (IF f = "usage" THEN its[i].quota.quota_raw.usage.n
             ELSE its[i].quota.quota_raw.limit.n) + SumOver(its, S \ {i}, f)

\* C7: a rendered dashboard with an unlimited account among the fetched ones,
\* at whatever position, has an unlimited total limit, no total remaining and
\* no percentage.
C7_AnyUnlimitedMakesTotalUnlimited ==
    \A r \in Reqs :
        (Rendered(r) /\ UnlimitedAt(items[r]) # {}) =>
            /\ total[r].limit_bytes = None
            /\ total[r].avail_bytes = None
            /\ total[r].pct_used = None
            /\ total[r].limit_h = Unlimited

\* an unlimited account first, a finite one last
C7_Witness ==
    /\ Rendered("r1") /\ Len(items["r1"]) = 3
    /\ UnlimitedAt(items["r1"]) = {1}
    /\ Fetched(items["r1"]) = {1, 3}
    /\ total["r1"].limit_bytes = None

\* C8 as stated: for every sequence, the total limit is finite exactly when
\* every fetched account is finite, then the sum of their limits, and unlimited
\* exactly when some fetched account is unlimited.
C8_TotalLimit_AsStated ==
    \A r \in Reqs :
        Rendered(r) =>
            /\ total[r].limit_bytes # None <=> UnlimitedAt(items[r]) = {}
            /\ total[r].limit_bytes # None =>
                   total[r].limit_bytes = IntV(SumOver(items[r], Fetched(items[r]), "limit"))

\* C8 amended: that holds for every sequence but the empty one (a sequence in
\* which every account errored included); with no account at all the total
\* limit is unlimited.
C8_TotalLimit ==
    \A r \in Reqs :
        Rendered(r) =>
            IF items[r] = << >> THEN total[r].limit_bytes = None
            ELSE /\ total[r].limit_bytes # None <=> UnlimitedAt(items[r]) = {}
                 /\ total[r].limit_bytes # None =>
                        total[r].limit_bytes = IntV(SumOver(items[r], Fetched(items[r]), "limit"))

\* every account errored: a finite total limit of 0
C8_Witness ==
    /\ Rendered("r1") /\ Len(items["r1"]) = 2 /\ Fetched(items["r1"]) = {}
    /\ total["r1"].limit_bytes = IntV(0)

\* the items without the accounts that errored
RECURSIVE OnlyFetched(_)
OnlyFetched(its) ==
    IF its = << >> THEN << >>
    ELSE IF Head(its).quota # None THEN << Head(its) >> \o OnlyFetched(Tail(its))
    ELSE OnlyFetched(Tail(its))

\* C9: a rendered dashboard has one item per linked account, in order; an
\* account that errored has no quota and its error string; the total used is
\* the sum of the usages of the fetched accounts alone, the summed limit is
\* theirs alone, and the percentage is the one of the fetched accounts alone.
C9_PartialFailure ==
    \A r \in Reqs :
        Rendered(r) =>
            /\ Len(items[r]) = Len(linked)
            /\ \A i \in 1..Len(items[r]) :
                  /\ items[r][i].account = linked[i]
                  /\ items[r][i].quota = None <=> items[r][i].error # NoError
            /\ total[r].used_bytes = SumOver(items[r], Fetched(items[r]), "usage")
            /\ total[r].limit_bytes # None =>
                  total[r].limit_bytes.n = SumOver(items[r], Fetched(items[r]) \ UnlimitedAt(items[r]), "limit")
            /\ total[r].pct_used = Aggregate(OnlyFetched(items[r])).pct_used

\* Scenario E: the first of three accounts fails with a network error, the
\* other two populate the aggregate
C9_Witness ==
    /\ Rendered("r1") /\ Len(items["r1"]) = 3
    /\ items["r1"][1].error = "TransportError"
    /\ Fetched(items["r1"]) = {2, 3}
    /\ total["r1"].used_bytes = items["r1"][2].quota.quota_raw.usage.n
                               + items["r1"][3].quota.quota_raw.usage.n
    /\ total["r1"].used_bytes = 5 * ByteUnit
    /\ total["r1"].limit_bytes = IntV(30 * ByteUnit)

\* C10: the percentage of a rendered dashboard is the integer nearest to
\* 100 * total_used / total_limit when the total limit is finite and not 0,
\* and undefined when it is unlimited or 0; usages 4 and 1 units with limits
\* 15 and 15 units give 5, 30 and 17.
C10_PercentUsed ==
    \A r \in Reqs :
        Rendered(r) =>
            LET tl == total[r].limit_bytes
                used == total[r].used_bytes
                p == total[r].pct_used
            IN /\ (tl # None /\ tl # IntV(0)) =>
                     /\ p # None
                     /\ 2 * Abs(p.n * tl.n - 100 * used) <= tl.n
               /\ (tl = None \/ tl = IntV(0)) => p = None
               /\ ( /\ Len(items[r]) = 2 /\ Fetched(items[r]) = {1, 2}
                    /\ items[r][1].quota.quota_raw.usage = IntV(4 * ByteUnit)
                    /\ items[r][2].quota.quota_raw.usage = IntV(ByteUnit)
                    /\ items[r][1].quota.quota_raw.limit = IntV(15 * ByteUnit)
                    /\ items[r][2].quota.quota_raw.limit = IntV(15 * ByteUnit) ) =>
                     /\ used = 5 * ByteUnit
                     /\ tl = IntV(30 * ByteUnit)
                     /\ p = IntV(17)

\* Scenario A
C10_Witness ==
    /\ Rendered("r1") /\ Len(items["r1"]) = 2 /\ Fetched(items["r1"]) = {1, 2}
    /\ items["r1"][1].quota.quota_raw.usage = IntV(4 * ByteUnit)
    /\ items["r1"][2].quota.quota_raw.usage = IntV(ByteUnit)
    /\ total["r1"].limit_bytes = IntV(30 * ByteUnit)
    /\ total["r1"].pct_used = IntV(17)

\* ------------------------------------------------ claims on the remainder
\* the reported usage is absent, an integer or digits
UsageCountable(v) == v.t = "absent" \/ (v.t \in {"int", "str"} /\ ~IntRaises(v))
UsageOrZero(v) == IF v.t = "absent" THEN 0 ELSE PyInt(v)

\* C11: every quota returned for a 200 answer with a finite limit has
\* remaining = limit - usage, an absent usage counting as 0, hence a remaining
\* that is not negative when usage <= limit; and every rendered total with a
\* finite limit has avail = limit - used.
C11_RemainingIsLimitMinusUsage ==
    \A r \in Reqs :
        /\ (pc[r] \in {"done", "d_agg", "rendered"} /\ resp[r].status = 200 /\ Succeeded(r)
            /\ UsageCountable(resp[r].body.usage)) =>
              LET lim == resp[r].body.limit
                  use == UsageOrZero(resp[r].body.usage)
                  q == result[r].quota
              IN IF kind[r] = "api"
                 THEN q.limit # UnlimitedText =>
                          q.remaining = GBString(PyInt(lim) - use)
                 ELSE q.quota_raw.limit # None =>
                          /\ q.quota_raw.remaining = IntV(q.quota_raw.limit.n - use)
                          /\ q.quota_raw.usage = IntV(use)
                          /\ use <= q.quota_raw.limit.n => q.quota_raw.remaining.n >= 0
        /\ (Rendered(r) /\ total[r].limit_bytes # None) =>
              total[r].avail_bytes = IntV(total[r].limit_bytes.n - total[r].used_bytes)

\* --------------------------------------------- two requests, one account
\* what the provider reports in the two-request specification
ConcBodies == {Body(StrV(<< 5 >>), StrV(<< 1, 5 >>))}

\* two requests (get_storage_quota calls or dashboards) for account 1, whose
\* refresh token the provider accepts; its access token is accepted or not
InitConc ==
    /\ Idle
    /\ store = [a \in AccountIds |-> Row(FirstAT(a), FirstRT(a))]
    /\ \E S \in SUBSET {FirstAT(1)} : validAT = S \cup {FirstAT(a) : a \in AccountIds \ {1}}
    /\ validRT = {FirstRT(a) : a \in AccountIds}
    /\ allApps = 1
    /\ siteApps = 1
    /\ libInstalled = TRUE
    /\ linked = << 1 >>

NextConc ==
    \E r \in Reqs :
        \/ ApiRead(r, 1)
        \/ ApiGet1(r, ConcBodies)
        \/ ApiRefreshPost(r)
        \/ ApiRefreshSave(r)
        \/ ApiGet2(r, ConcBodies)
        \/ ApiParse(r)
        \/ DashboardBegin(r)
        \/ ViewsStart(r)
        \/ ViewsRefresh(r)
        \/ ViewsSave(r)
        \/ ViewsExecute(r, ConcBodies)
        \/ ViewsParse(r)
        \/ DashAggregate(r)

SpecConc == InitConc /\ [][NextConc]_vars

Finished(r) == pc[r] \in {"done", "rendered"}
HasSaved(r) == Count(log[r], "SAVE") > 0
\* the access tokens a quota GET of these requests was answered 401 for
Rejected ==
    UNION {{log[r][i].tok : i \in {j \in 1..Len(log[r]) :
                                     log[r][j].op = "GET" /\ log[r][j].status = 401}} : r \in Reqs}
\* the refresh tokens these requests presented to the token endpoint
Presented ==
    UNION {{log[r][i].tok : i \in {j \in 1..Len(log[r]) : log[r][j].op = "POST"}} : r \in Reqs}
\* the provider accepts every refresh token it has accepted before
NoRevocation == \A t \in {FirstRT(a) : a \in AccountIds} \cup Presented : t \in validRT

====
